---- MODULE Spec2Model ----
(***************************************************************************)
(* Event-sourced command engine of singlewriter-demo: the functional core  *)
(* (produce / consume / reduce / commit / rollback), the log-structured    *)
(* store (LSS) writer and reader, startup recovery and the single-writer   *)
(* coordinator withSingleWriterMutex, as written in src/unnamed/part_000.  *)
(***************************************************************************)
EXTENDS Integers, Sequences, FiniteSets, TLC

\* ------------------------------------------------------------------ bounds
\* Jobs submitted to the coordinator over a whole behaviour.
MaxJobs == 3
\* Calls of produce and consume by critical sections over a whole behaviour.
MaxCalls == 2
\* Process restarts over a whole behaviour.
MaxRestarts == 2
\* Nesting depth of produce at which the engine raises RangeError (call stack).
MaxStack == 2
\* Calls made on the core when it is driven alone.
MaxCoreCalls == 3

\* ------------------------------------------------------- program constants
maxRetries == 10

\* --------------------------------------------------- JS objects and arrays
\* A JS object is its list of <<key, value>> pairs in insertion order.
Has(o, k) == \E i \in DOMAIN o : o[i][1] = k

Get(o, k) == o[CHOOSE i \in DOMAIN o : o[i][1] = k][2]

\* {...o, [k]: v}: an existing key keeps its place, a new key goes last.
Put(o, k, v) ==
  IF Has(o, k)
    THEN [i \in DOMAIN o |-> IF o[i][1] = k THEN <<k, v>> ELSE o[i]]
    ELSE Append(o, <<k, v>>)

RECURSIVE Without(_, _)
\* a copy of the list s without the element x (Set.delete, Array.filter)
Without(s, x) ==
  IF s = <<>> THEN <<>>
  ELSE IF Head(s) = x THEN Without(Tail(s), x)
  ELSE <<Head(s)>> \o Without(Tail(s), x)

RECURSIVE NewSet(_)
\* new Set(array): the elements in first-occurrence order
NewSet(s) ==
  IF s = <<>> THEN <<>>
  ELSE <<Head(s)>> \o Without(NewSet(Tail(s)), Head(s))

Max(a, b) == IF a >= b THEN a ELSE b

\* `sub-${n}` and its inverse parseInt(id.split('-')[1])
SubscriptionId(n) == <<"sub", n>>

ParseSubscriptionId(id) == id[2]

\* -------------------------------------------------------------- the tables
StateChangeIds == <<"Subscription.Create", "Subscription.Assign.Members">>

StateViewIds == <<"Subscription.List", "Assignment.Tracker", "Emails.To.Send">>

StateMachineIds == <<"Assignment.Tracker">>

ChangeInitialState(viewId) ==
  IF viewId = "Subscription.Create" THEN [nextId |-> 1] ELSE <<>>

ViewInitialState(viewId) ==
  IF viewId = "Emails.To.Send" THEN [nextId |-> 1, list |-> <<>>] ELSE <<>>

\* StateChange[..].reduce has an entry for the event type
HasChangeReducer(viewId, type) ==
  viewId = "Subscription.Create" /\ type = "Subscription.Created"

\* a reducer that leaves nextId where it is
ChangeReducer_keepsNextId(viewId, type, state, event) == state

ChangeReducer(viewId, type, state, event) ==
  [state EXCEPT !.nextId =
     Max(state.nextId, ParseSubscriptionId(event.data.subscriptionId) + 1)]

\* StateChange[..].map, for the two command types that have one
Map(viewId, command, state) ==
  IF viewId = "Subscription.Create"
    THEN << [type |-> "Subscription.Created",
             data |-> [subscriptionId |-> SubscriptionId(state.nextId),
                       plan |-> command.plan,
                       createdBy |-> command.createdBy],
             metadata |-> "{}"] >>
    ELSE << [type |-> "Members.AssignmentStarted",
             data |-> [subscriptionId |-> command.subscriptionId,
                       members |-> command.members],
             metadata |-> "{}"] >>

HasViewReducer(viewId, type) ==
  \/ viewId = "Subscription.List"
       /\ type \in {"Subscription.Created", "Member.AssignedToSubscription"}
  \/ viewId = "Assignment.Tracker"
       /\ type \in {"Members.AssignmentStarted", "Member.AssignedToSubscription",
                    "Failed.ToAssignMemberToSubscription"}
  \/ viewId = "Emails.To.Send"
       /\ type \in {"Member.AssignedToSubscription", "Member.AssignmentStarted",
                    "Email.Succeeded", "Email.Failed"}

SubscriptionListReducer(type, state, data) ==
  IF type = "Subscription.Created"
    THEN Put(state, data.subscriptionId,
             [plan |-> data.plan, createdBy |-> data.createdBy, members |-> <<>>])
  ELSE IF ~Has(state, data.subscriptionId) THEN state
  ELSE LET sub == Get(state, data.subscriptionId)
       IN  Put(state, data.subscriptionId,
               [sub EXCEPT !.members = Append(sub.members, data.memberId)])

AssignmentTrackerReducer(type, state, data) ==
  IF type = "Members.AssignmentStarted"
    THEN Put(state, data.subscriptionId,
             [pending |-> NewSet(data.members), completed |-> <<>>, failed |-> <<>>])
  ELSE IF ~Has(state, data.subscriptionId) THEN state
  ELSE LET tracker == Get(state, data.subscriptionId)
           pending == Without(tracker.pending, data.memberId)
       IN  IF type = "Member.AssignedToSubscription"
             THEN Put(state, data.subscriptionId,
                      [tracker EXCEPT !.completed = Append(tracker.completed, data.memberId),
                                      !.pending = pending])
             ELSE Put(state, data.subscriptionId,
                      [tracker EXCEPT !.failed = Append(tracker.failed, data.memberId),
                                      !.pending = pending])

RECURSIVE EmailFailedList_offByOne(_, _)
\* a retry cap that drops the notification one failure too late
EmailFailedList_offByOne(list, notificationId) ==
  IF list = <<>> THEN <<>>
  ELSE LET x == Head(list)
           rest == EmailFailedList_offByOne(Tail(list), notificationId)
           newAttempt == x.attempt + 1
       IN  IF x.notificationId # notificationId THEN <<x>> \o rest
           ELSE IF newAttempt <= maxRetries
             THEN <<[x EXCEPT !.attempt = newAttempt]>> \o rest
             ELSE rest

RECURSIVE EmailFailedList(_, _)
\* list.flatMap of the Email.Failed reducer
EmailFailedList(list, notificationId) ==
  IF list = <<>> THEN <<>>
  ELSE LET x == Head(list)
           rest == EmailFailedList(Tail(list), notificationId)
           newAttempt == x.attempt + 1
       IN  IF x.notificationId # notificationId THEN <<x>> \o rest
           ELSE IF newAttempt < maxRetries
             THEN <<[x EXCEPT !.attempt = newAttempt]>> \o rest
             ELSE rest

RECURSIVE EmailSucceededList(_, _)
\* list.filter of the Email.Succeeded reducer
EmailSucceededList(list, notificationId) ==
  IF list = <<>> THEN <<>>
  ELSE IF Head(list).notificationId # notificationId
    THEN <<Head(list)>> \o EmailSucceededList(Tail(list), notificationId)
    ELSE EmailSucceededList(Tail(list), notificationId)

EmailsToSendReducer(type, state, data) ==
  IF type = "Member.AssignedToSubscription"
    THEN [nextId |-> state.nextId + 1,
          list |-> Append(state.list,
                     [text |-> <<"assigned", data.memberId, data.subscriptionId>>,
                      notificationId |-> state.nextId, attempt |-> 0])]
  ELSE IF type = "Member.AssignmentStarted"
    THEN [nextId |-> state.nextId + 1,
          list |-> Append(state.list,
                     [text |-> <<"started", data.memberId>>,
                      notificationId |-> state.nextId, attempt |-> 0])]
  ELSE IF type = "Email.Succeeded"
    THEN [state EXCEPT !.list = EmailSucceededList(state.list, data.notificationId)]
    ELSE [state EXCEPT !.list = EmailFailedList(state.list, data.notificationId)]

ViewReducer(viewId, type, state, data) ==
  IF viewId = "Subscription.List" THEN SubscriptionListReducer(type, state, data)
  ELSE IF viewId = "Assignment.Tracker" THEN AssignmentTrackerReducer(type, state, data)
  ELSE EmailsToSendReducer(type, state, data)

\* -------------------------------------------------------- FunctionalCore
\* The closure state of FunctionalCore right after construction.
FunctionalCore ==
  [stateChange |-> [i \in {StateChangeIds[k] : k \in DOMAIN StateChangeIds}
                      |-> ChangeInitialState(i)],
   stateView |-> [i \in {StateViewIds[k] : k \in DOMAIN StateViewIds}
                      |-> ViewInitialState(i)],
   stateMachine |-> {},
   currentTransaction |-> <<>>,
   currentState |-> [stateChange |-> <<>>, stateView |-> <<>>]]

\* body of StateView.forEach in reduce, for one view
ReduceView(c, viewId, event) ==
  LET c1 == IF HasViewReducer(viewId, event.type)
              THEN [c EXCEPT
                      !.currentState.stateView =
                         IF Has(@, viewId) THEN @ ELSE Put(@, viewId, c.stateView[viewId]),
                      !.stateView[viewId] = ViewReducer(viewId, event.type, @, event.data)]
              ELSE c
  IN  [c1 EXCEPT !.stateMachine = @ \cup {viewId}]

\* body of StateChange.forEach in reduce, for one entry
ReduceChange(c, viewId, event) ==
  IF HasChangeReducer(viewId, event.type)
    THEN [c EXCEPT
            !.currentState.stateChange =
               IF Has(@, viewId) THEN @ ELSE Put(@, viewId, c.stateChange[viewId]),
            !.stateChange[viewId] = ChangeReducer(viewId, event.type, @, event)]
    ELSE c

RECURSIVE ReduceViews(_, _, _)
ReduceViews(c, ids, event) ==
  IF ids = <<>> THEN c
  ELSE ReduceViews(ReduceView(c, Head(ids), event), Tail(ids), event)

RECURSIVE ReduceChanges(_, _, _)
ReduceChanges(c, ids, event) ==
  IF ids = <<>> THEN c
  ELSE ReduceChanges(ReduceChange(c, Head(ids), event), Tail(ids), event)

reduce(c, event) ==
  ReduceChanges(ReduceViews(c, StateViewIds, event), StateChangeIds, event)

RECURSIVE ReduceAll(_, _)
\* events.forEach(reduce)
ReduceAll(c, events) ==
  IF events = <<>> THEN c ELSE ReduceAll(reduce(c, Head(events)), Tail(events))

\* ------------------------------------------------------------------ query
\* A key of a path is a subscription id or a property name; the name n is
\* written <<n>>.
Key(name) == <<name>>

IsName(key) == Len(key) = 1

\* A JS value as query meets it: the value, with the kind of object it is.
\* The kinds are the three views (named by their viewId), "views" (stateView
\* itself), "subscription", "tracker", "array", "set", "string", "number",
\* "function", and "undefined" and "null" for the two values of those names.
Value(kind, v) == [kind |-> kind, value |-> v]

undefined == Value("undefined", <<>>)

\* the sentinel query returns for a missing key
null == Value("null", <<>>)

\* x[key] where key is one of x's own properties, the elements of an array
\* aside: the properties the reducers, the initial states and the
\* constructor of the core have put there
OwnProperty(x, key) ==
  IF x.kind = "views"
    THEN IF IsName(key) /\ key[1] \in DOMAIN x.value
           THEN Value(key[1], x.value[key[1]]) ELSE undefined
  ELSE IF x.kind \in {"Subscription.List", "Assignment.Tracker"}
    THEN IF Has(x.value, key)
           THEN Value(IF x.kind = "Subscription.List" THEN "subscription" ELSE "tracker",
                      Get(x.value, key))
           ELSE undefined
  ELSE IF ~IsName(key) THEN undefined
  ELSE IF x.kind = "subscription"
    THEN IF key[1] \in {"plan", "createdBy"} THEN Value("string", x.value[key[1]])
         ELSE IF key[1] = "members" THEN Value("array", x.value.members)
         ELSE undefined
  ELSE IF x.kind = "tracker"
    THEN IF key[1] = "pending" THEN Value("set", x.value.pending)
         ELSE IF key[1] \in {"completed", "failed"} THEN Value("array", x.value[key[1]])
         ELSE undefined
  ELSE IF x.kind = "Emails.To.Send"
    THEN IF key[1] = "nextId" THEN Value("number", x.value.nextId)
         ELSE IF key[1] = "list" THEN Value("array", x.value.list)
         ELSE undefined
  ELSE undefined

\* x[key] where key is not an own property: what the value has by being an
\* array, a string or a function, and what it inherits from its prototype.
\* "constructor" stands for the properties of Object.prototype; the length
\* of a string or function is left symbolic.
BuiltinProperty(x, key) ==
  IF ~IsName(key) THEN undefined
  ELSE IF key[1] = "constructor" THEN Value("function", <<"constructor of", x.kind>>)
  ELSE IF key[1] = "length" /\ x.kind = "array" THEN Value("number", Len(x.value))
  ELSE IF key[1] = "length" /\ x.kind \in {"string", "function"}
    THEN Value("number", <<"length of", x.value>>)
  ELSE undefined

\* state[key]
Property(x, key) ==
  IF OwnProperty(x, key).kind # "undefined" THEN OwnProperty(x, key)
  ELSE BuiltinProperty(x, key)

RECURSIVE recurse(_, _)
recurse(state, path) ==
  IF path = <<>> THEN state
  ELSE IF Property(state, Head(path)).kind # "undefined"
    THEN recurse(Property(state, Head(path)), Tail(path))
    ELSE null

\* query(path), with the kind of the value it returned
query(c, path) == recurse(Value("views", c.stateView), path)

RECURSIVE PendingCommands(_, _)
\* the commands the Assignment.Tracker machine issues, in loop order:
\* for (subscriptionId in trackerView) for (memberId of tracker.pending)
PendingCommands(trackerView, i) ==
  IF i > Len(trackerView) THEN <<>>
  ELSE LET subscriptionId == trackerView[i][1]
           pending == trackerView[i][2].pending
       IN  [k \in DOMAIN pending |->
              [type |-> "Subscription.Assign.Members",
               data |-> [subscriptionId |-> subscriptionId,
                         members |-> <<pending[k]>>]]]
           \o PendingCommands(trackerView, i + 1)

HasMap(type) == \E k \in DOMAIN StateChangeIds : StateChangeIds[k] = type

RECURSIVE produceAt(_, _, _)
RECURSIVE ProduceEach(_, _, _)
RECURSIVE trigger(_, _)

\* produce(command) entered with d frames of produce on the stack. The result
\* is the core as the call left it, whether it threw, and the events returned.
\* It throws on a command type without a StateChange entry (change is
\* undefined) and when the call stack is exhausted.
produceAt(c, command, d) ==
  IF d > MaxStack \/ ~HasMap(command.type)
    THEN [core |-> c, threw |-> TRUE, events |-> <<>>]
    ELSE LET events == Map(command.type, command.data, c.stateChange[command.type])
             c1 == [c EXCEPT !.currentTransaction = @ \o events]
             t == trigger(ReduceAll(c1, events), d)
         IN  [core |-> t.core, threw |-> t.threw, events |-> events]

\* the loop of a machine's trigger: produce each command until one throws
ProduceEach(c, commands, d) ==
  IF commands = <<>> THEN [core |-> c, threw |-> FALSE]
  ELSE LET r == produceAt(c, Head(commands), d)
       IN  IF r.threw THEN [core |-> r.core, threw |-> TRUE]
           ELSE ProduceEach(r.core, Tail(commands), d)

\* trigger(), called from a produce or consume that has d frames of produce
\* below it: StateMachine has the one machine, on Assignment.Tracker
trigger(c, d) ==
  LET snapshot == c.stateMachine
      c1 == [c EXCEPT !.stateMachine = {}]
  IN  IF StateMachineIds[1] \in snapshot
        THEN ProduceEach(c1, PendingCommands(query(c1, <<Key("Assignment.Tracker")>>).value, 1), d + 1)
        ELSE [core |-> c1, threw |-> FALSE]

produce(c, command) == produceAt(c, command, 1)

\* a consume that folds the event without logging it in the transaction
consume_withoutPush(c, event) == trigger(reduce(c, event), 0)

consume(c, event) ==
  trigger(reduce([c EXCEPT !.currentTransaction = Append(@, event)], event), 0)

\* a commit that hands out the transaction buffer without emptying it
commit_keepsBuffer(c) ==
  [c EXCEPT !.currentState = [stateChange |-> <<>>, stateView |-> <<>>]]

\* a commit that empties the transaction buffer and keeps the snapshots
commit_keepsSnapshots(c) == [c EXCEPT !.currentTransaction = <<>>]

\* commit(): the core after the call; the value returned is c.currentTransaction
commit(c) ==
  [c EXCEPT !.currentTransaction = <<>>,
            !.currentState = [stateChange |-> <<>>, stateView |-> <<>>]]

RECURSIVE Restore(_, _)
\* for (viewId in saved) state[viewId] = saved[viewId]
Restore(state, saved) ==
  IF saved = <<>> THEN state
  ELSE Restore([state EXCEPT ![Head(saved)[1]] = Head(saved)[2]], Tail(saved))

\* a rollback that restores the projections and leaves the transaction buffer
rollback_keepsBuffer(c) ==
  [c EXCEPT !.stateChange = Restore(@, c.currentState.stateChange),
            !.stateView = Restore(@, c.currentState.stateView),
            !.currentState = [stateChange |-> <<>>, stateView |-> <<>>]]

rollback(c) ==
  [c EXCEPT !.stateChange = Restore(@, c.currentState.stateChange),
            !.stateView = Restore(@, c.currentState.stateView),
            !.currentTransaction = <<>>,
            !.currentState = [stateChange |-> <<>>, stateView |-> <<>>]]

\* -------------------------------------------------------------------- LSS
\* the record CREATE TABLE seeds on the first initialization
Bootstrap ==
  [orderId |-> 0, partitionId |-> "system", type |-> "LSS.Initialized",
   data |-> <<>>, metadata |-> "{}"]

\* a writer that starts its counter at 0 whatever the table holds
MaxOrderId_zero(rows) == 0

RECURSIVE MaxOrderId(_)
\* SELECT COALESCE(MAX(lss_order_id), 0)
MaxOrderId(rows) ==
  IF rows = <<>> THEN 0 ELSE Max(Head(rows).orderId, MaxOrderId(Tail(rows)))

RECURSIVE physicalAppend(_, _)
\* The synchronous part of physicalAppend(events) with the counter at n: the
\* VALUES tuples built, the counter afterwards, and whether it threw
\* (metadata.appendTime = ... on an event without metadata).
physicalAppend(events, n) ==
  IF events = <<>> THEN [rows |-> <<>>, currentOrderId |-> n, threw |-> FALSE]
  ELSE IF Head(events).metadata = "undefined"
    THEN [rows |-> <<>>, currentOrderId |-> n, threw |-> TRUE]
    ELSE LET rest == physicalAppend(Tail(events), n + 1)
             row == [orderId |-> n + 1, partitionId |-> "undefined",
                     type |-> Head(events).type, data |-> Head(events).data,
                     metadata |-> "{appendTime}"]
         IN  [rest EXCEPT !.rows = <<row>> \o @]

\* Whether the store accepts INSERT ... VALUES rows: an empty VALUES list is
\* a syntax error, a repeated lss_order_id breaks the unique index.
InsertAccepted(table, rows) ==
  /\ rows # <<>>
  /\ \A i \in DOMAIN rows : \A k \in DOMAIN table : table[k].orderId # rows[i].orderId

RECURSIVE OrderByOrderId(_)
\* ORDER BY lss_order_id ASC
OrderByOrderId(rows) ==
  IF rows = <<>> THEN <<>>
  ELSE LET m == CHOOSE i \in DOMAIN rows :
                  \A k \in DOMAIN rows : rows[i].orderId <= rows[k].orderId
       IN  <<rows[m]>> \o
           OrderByOrderId([k \in 1..(Len(rows) - 1) |-> IF k < m THEN rows[k] ELSE rows[k + 1]])

RECURSIVE RowsToEvents(_)
RowsToEvents(rows) ==
  IF rows = <<>> THEN <<>>
  ELSE <<[type |-> Head(rows).type, data |-> Head(rows).data,
          metadata |-> Head(rows).metadata]>> \o RowsToEvents(Tail(rows))

physicalRead(table) == RowsToEvents(OrderByOrderId(table))

\* --------------------------------------------------------------- Recovery
RECURSIVE ConsumeAll(_, _)
\* history.forEach(core.consume)
ConsumeAll(c, events) ==
  IF events = <<>> THEN c ELSE ConsumeAll(consume(c, Head(events)).core, Tail(events))

\* a recovery that feeds the log to consume, as if the events were new input
Recovery_consumes(history) == ConsumeAll(FunctionalCore, history)

\* history.forEach(core.reduce) on a freshly constructed core
Recovery(history) == ReduceAll(FunctionalCore, history)

\* ------------------------------------------------------------ the process
VARIABLES
  log,             \* the rows of table lss, in insertion order
  apiKey,          \* whether SENDGRID_API_KEY is set
  currentOrderId,  \* the writer's counter
  core,            \* the closure state of the functional core
  queue,           \* withSingleWriterMutex: the waiting jobs
  busy,            \* withSingleWriterMutex: busy
  pc,              \* "idle": the event loop waits; "cs": inside a criticalSection;
                   \* "exited": process.exit(1) was called
  job,             \* the job whose criticalSection runs (0: none)
  appends,         \* physicalAppend calls whose promise has not been handled yet
  submitted,       \* history: jobs submitted so far (a job is named by its number)
  calls,           \* history: produce and consume calls made by critical sections
  restarts,        \* history: restarts so far
  started,         \* history: the jobs whose criticalSection began, in order, each with
                   \* the restarts before it and the jobs left waiting behind it
  emitted,         \* history: events the running criticalSection has emitted
  preJob,          \* history: the projections when the last job began
  committed,       \* history: jobs whose INSERT was executed, with their events
  continued,       \* history: jobs whose continuation was invoked
  calledBack,      \* history: jobs after which externalStateOutput was run
  rolledBack,      \* history: jobs the catch block rolled back
  failed,          \* history: jobs whose physicalAppend promise was rejected
  recovered,       \* core alone: the core of a process restarted on the log (<<>>: none)
  trace            \* core alone: the calls made on the core so far, with their results

vars ==
  <<log, apiKey, currentOrderId, core, queue, busy, pc, job, appends, submitted, calls,
    restarts, started, emitted, preJob, committed, continued, calledBack, rolledBack,
    failed, recovered, trace>>

history == <<committed, continued, calledBack, rolledBack, failed>>

\* the variables only the specification of the core alone changes
alone == <<recovered, trace>>

\* the ChangeState and ViewState projections of a core
Projections(c) == [stateChange |-> c.stateChange, stateView |-> c.stateView]

\* --------------------------------------------------------------- inputs
Plans == {"gold"}

Users == {"a@b"}

MemberLists == {<<>>, <<"m1">>, <<"m1", "m2">>}

\* commands a criticalSection produces; Email.Failed has no StateChange entry
Commands ==
  {[type |-> "Subscription.Create", data |-> [plan |-> p, createdBy |-> u]] :
     p \in Plans, u \in Users}
  \cup {[type |-> "Subscription.Assign.Members",
         data |-> [subscriptionId |-> SubscriptionId(1), members |-> m]] :
          m \in MemberLists}
  \cup {[type |-> "Email.Failed", data |-> [notificationId |-> 1]]}

\* events a criticalSection consumes; the email sender passes no metadata
Events ==
  {[type |-> "Member.AssignedToSubscription",
    data |-> [subscriptionId |-> SubscriptionId(1), memberId |-> "m1"],
    metadata |-> "{}"]}
  \cup {[type |-> "Email.Failed", data |-> [notificationId |-> 1], metadata |-> md] :
          md \in {"undefined", "{}"}}

\* what a continuation does with {tx, returnValue}
Continuations == {"return", "throw", "submit"}

\* ------------------------------------------------------ withSingleWriterMutex
\* an update() that takes the newest waiting job instead of the oldest
update_newestFirst(q, c, b) ==
  /\ core' = c
  /\ emitted' = <<>>
  /\ IF q = <<>>
       THEN /\ busy' = FALSE
            /\ queue' = q
            /\ pc' = "idle"
            /\ job' = 0
            /\ UNCHANGED <<started, preJob>>
       ELSE /\ busy' = b
            /\ queue' = SubSeq(q, 1, Len(q) - 1)
            /\ pc' = "cs"
            /\ job' = q[Len(q)]
            /\ started' = Append(started, [id |-> q[Len(q)], epoch |-> restarts,
                                         behind |-> Len(q) - 1])
            /\ preJob' = Projections(c)

\* update() entered with queue q, core c and busy b: either the coordinator
\* goes idle or the head job's criticalSection begins.
update(q, c, b) ==
  /\ core' = c
  /\ emitted' = <<>>
  /\ IF q = <<>>
       THEN /\ busy' = FALSE
            /\ queue' = q
            /\ pc' = "idle"
            /\ job' = 0
            /\ UNCHANGED <<started, preJob>>
       ELSE /\ busy' = b
            /\ queue' = Tail(q)
            /\ pc' = "cs"
            /\ job' = Head(q)
            /\ started' = Append(started, [id |-> Head(q), epoch |-> restarts,
                                         behind |-> Len(Tail(q))])
            /\ preJob' = Projections(c)

\* process.exit(1)
Exit ==
  /\ pc' = "exited"
  /\ UNCHANGED <<queue, busy, job, emitted, started, preJob>>

\* a submit that clears busy once update() has returned, as src/app.js does
Submit_clearsBusy ==
  /\ UNCHANGED alone
  /\ pc = "idle"
  /\ submitted < MaxJobs
  /\ submitted' = submitted + 1
  /\ IF busy
       THEN /\ queue' = Append(queue, submitted + 1)
            /\ UNCHANGED <<core, busy, pc, job, emitted, started, preJob>>
       ELSE update(Append(queue, submitted + 1), core, FALSE)
  /\ UNCHANGED <<log, apiKey, currentOrderId, appends, calls, restarts, history>>

\* withSingleWriterMutex(criticalSection)(continuation) called from outside
\* the coordinator: an HTTP request, a timer, an effect response
Submit ==
  /\ UNCHANGED alone
  /\ pc = "idle"
  /\ submitted < MaxJobs
  /\ submitted' = submitted + 1
  /\ IF busy
       THEN /\ queue' = Append(queue, submitted + 1)
            /\ UNCHANGED <<core, busy, pc, job, emitted, started, preJob>>
       ELSE update(Append(queue, submitted + 1), core, TRUE)
  /\ UNCHANGED <<log, apiKey, currentOrderId, appends, calls, restarts, history>>

\* a catch block that ends the process instead of rolling back, as src/app.js does
Catch_exits(c) ==
  /\ rolledBack' = rolledBack \cup {job}
  /\ core' = c
  /\ Exit
  /\ UNCHANGED <<log, apiKey, currentOrderId, appends, submitted, restarts,
                 committed, continued, calledBack, failed>>

\* a catch block that rolls back and returns without calling update()
Catch_stops(c) ==
  /\ rolledBack' = rolledBack \cup {job}
  /\ core' = rollback(c)
  /\ emitted' = <<>>
  /\ pc' = "idle"
  /\ job' = 0
  /\ UNCHANGED <<queue, busy, started, preJob>>
  /\ UNCHANGED <<log, apiKey, currentOrderId, appends, submitted, restarts,
                 committed, continued, calledBack, failed>>

\* the catch block of update(): the criticalSection threw and left the core as c
Catch(c) ==
  /\ rolledBack' = rolledBack \cup {job}
  /\ update(queue, rollback(c), busy)
  /\ UNCHANGED <<log, apiKey, currentOrderId, appends, submitted, restarts,
                 committed, continued, calledBack, failed>>

\* the events a core call added to the transaction buffer
Emitted(c, c1) ==
  SubSeq(c1.currentTransaction, Len(c.currentTransaction) + 1, Len(c1.currentTransaction))

\* a core call of the criticalSection returned and left the core as c
Proceed(c) ==
  /\ core' = c
  /\ emitted' = emitted \o Emitted(core, c)
  /\ UNCHANGED <<log, apiKey, currentOrderId, queue, busy, pc, job, appends, submitted,
                 restarts, started, preJob, history>>

\* the criticalSection calls core.produce(command)
CsProduce ==
  /\ UNCHANGED alone
  /\ pc = "cs"
  /\ calls < MaxCalls
  /\ calls' = calls + 1
  /\ \E command \in Commands :
       LET r == produce(core, command)
       IN  IF r.threw THEN Catch(r.core) ELSE Proceed(r.core)

\* the criticalSection calls core.consume(event)
CsConsume ==
  /\ UNCHANGED alone
  /\ pc = "cs"
  /\ calls < MaxCalls
  /\ calls' = calls + 1
  /\ \E event \in Events :
       LET r == consume(core, event)
       IN  IF r.threw THEN Catch(r.core) ELSE Proceed(r.core)

\* the criticalSection submits a job itself: busy is true, the job waits
CsSubmit ==
  /\ UNCHANGED alone
  /\ pc = "cs"
  /\ submitted < MaxJobs
  /\ submitted' = submitted + 1
  /\ queue' = Append(queue, submitted + 1)
  /\ UNCHANGED <<log, apiKey, currentOrderId, core, busy, pc, job, appends, calls,
                 restarts, started, emitted, preJob, history>>

\* the criticalSection throws by itself
CsThrow ==
  /\ UNCHANGED alone
  /\ pc = "cs"
  /\ Catch(core)
  /\ UNCHANGED calls

\* The criticalSection returns: core.commit(), then physicalAppend(tx). The
\* promise of a physicalAppend that threw is rejected at once and its catch
\* handler ends the process before any other task runs.
CsReturn ==
  /\ UNCHANGED alone
  /\ pc = "cs"
  /\ LET tx == core.currentTransaction
         p == physicalAppend(tx, currentOrderId)
     IN  /\ core' = commit(core)
         /\ currentOrderId' = p.currentOrderId
         /\ IF p.threw
              THEN /\ failed' = failed \cup {job}
                   /\ Exit
                   /\ UNCHANGED appends
              ELSE /\ appends' = Append(appends,
                                   [id |-> job, rows |-> p.rows, emitted |-> emitted,
                                    state |-> "pending"])
                   /\ pc' = "idle"
                   /\ job' = 0
                   /\ UNCHANGED <<queue, busy, emitted, started, preJob, failed>>
  /\ UNCHANGED <<log, apiKey, submitted, calls, restarts, committed, continued,
                 calledBack, rolledBack>>

\* the store executes the INSERT of the oldest outstanding physicalAppend
AppendSucceeds ==
  /\ UNCHANGED alone
  /\ pc # "exited"
  /\ appends # <<>>
  /\ Head(appends).state = "pending"
  /\ InsertAccepted(log, Head(appends).rows)
  /\ log' = log \o Head(appends).rows
  /\ appends' = [appends EXCEPT ![1].state = "done"]
  /\ committed' = Append(committed, [id |-> Head(appends).id,
                                     events |-> Head(appends).emitted])
  /\ UNCHANGED <<apiKey, currentOrderId, core, queue, busy, pc, job, submitted, calls,
                 restarts, started, emitted, preJob, continued, calledBack, rolledBack,
                 failed>>

\* a rejection handler that logs the error and goes on with the next job
AppendFails_goesOn ==
  /\ UNCHANGED alone
  /\ pc = "idle"
  /\ appends # <<>>
  /\ Head(appends).state = "pending"
  /\ failed' = failed \cup {Head(appends).id}
  /\ appends' = Tail(appends)
  /\ update(queue, core, busy)
  /\ UNCHANGED <<log, apiKey, currentOrderId, submitted, calls, restarts, committed,
                 continued, calledBack, rolledBack>>

\* The INSERT fails (always, when the store does not accept it); the promise
\* is rejected and the catch handler ends the process.
AppendFails ==
  /\ UNCHANGED alone
  /\ pc = "idle"
  /\ appends # <<>>
  /\ Head(appends).state = "pending"
  /\ failed' = failed \cup {Head(appends).id}
  /\ appends' = Tail(appends)
  /\ core' = core
  /\ Exit
  /\ UNCHANGED <<log, apiKey, currentOrderId, submitted, calls, restarts, committed,
                 continued, calledBack, rolledBack>>

\* a then handler that runs externalStateOutput before the continuation
ThenHandler_callbacksFirst ==
  /\ UNCHANGED alone
  /\ pc = "idle"
  /\ appends # <<>>
  /\ Head(appends).state = "done"
  /\ appends' = Tail(appends)
  /\ continued' = continued \cup {Head(appends).id}
  /\ calledBack' = calledBack \cup {Head(appends).id}
  /\ \E k \in Continuations :
       /\ k = "submit" => submitted < MaxJobs
       /\ submitted' = IF k = "submit" THEN submitted + 1 ELSE submitted
       /\ IF k = "throw" \/ apiKey
            THEN /\ core' = core
                 /\ pc' = "exited"
                 /\ queue' = IF k = "submit" THEN Append(queue, submitted + 1) ELSE queue
                 /\ UNCHANGED <<busy, job, emitted, started, preJob>>
            ELSE update(IF k = "submit" THEN Append(queue, submitted + 1) ELSE queue,
                        core, busy)
  /\ UNCHANGED <<log, apiKey, currentOrderId, calls, restarts, committed, rolledBack,
                 failed>>

\* The then handler of a resolved physicalAppend: the continuation, then
\* externalStateOutput, then update(). An exception in it reaches the catch
\* handler, which ends the process. With SENDGRID_API_KEY set the email sender
\* calls .map on the Emails.To.Send object and throws.
ThenHandler ==
  /\ UNCHANGED alone
  /\ pc = "idle"
  /\ appends # <<>>
  /\ Head(appends).state = "done"
  /\ appends' = Tail(appends)
  /\ continued' = continued \cup {Head(appends).id}
  /\ \E k \in Continuations :
       /\ k = "submit" => submitted < MaxJobs
       /\ submitted' = IF k = "submit" THEN submitted + 1 ELSE submitted
       /\ IF k = "throw"
            THEN /\ core' = core
                 /\ Exit
                 /\ UNCHANGED calledBack
            ELSE /\ calledBack' = calledBack \cup {Head(appends).id}
                 /\ IF apiKey
                      THEN /\ core' = core
                           /\ pc' = "exited"
                           /\ queue' = IF k = "submit" THEN Append(queue, submitted + 1)
                                       ELSE queue
                           /\ UNCHANGED <<busy, job, emitted, started, preJob>>
                      ELSE update(IF k = "submit" THEN Append(queue, submitted + 1)
                                  ELSE queue, core, busy)
  /\ UNCHANGED <<log, apiKey, currentOrderId, calls, restarts, committed, rolledBack,
                 failed>>

\* The process is started again on the same store: the writer reads the
\* maximum order id, a new core is constructed and recovery replays the log.
Restart ==
  /\ UNCHANGED alone
  /\ pc = "exited"
  /\ restarts < MaxRestarts
  /\ restarts' = restarts + 1
  /\ currentOrderId' = MaxOrderId(log)
  /\ core' = Recovery(physicalRead(log))
  /\ queue' = <<>>
  /\ busy' = FALSE
  /\ pc' = "idle"
  /\ job' = 0
  /\ appends' = <<>>
  /\ emitted' = <<>>
  /\ UNCHANGED <<log, apiKey, submitted, calls, started, preJob, history>>

\* The first start, on an empty store: the table is created with the
\* bootstrap record, the counter is its order id, recovery replays it.
Init ==
  /\ log = <<Bootstrap>>
  /\ apiKey \in BOOLEAN
  /\ currentOrderId = MaxOrderId(<<Bootstrap>>)
  /\ core = Recovery(physicalRead(<<Bootstrap>>))
  /\ queue = <<>>
  /\ busy = FALSE
  /\ pc = "idle"
  /\ job = 0
  /\ appends = <<>>
  /\ submitted = 0
  /\ calls = 0
  /\ restarts = 0
  /\ started = <<>>
  /\ emitted = <<>>
  /\ preJob = Projections(FunctionalCore)
  /\ committed = <<>>
  /\ continued = {}
  /\ calledBack = {}
  /\ rolledBack = {}
  /\ failed = {}
  /\ recovered = <<>>
  /\ trace = <<>>

Next ==
  \/ Submit
  \/ CsProduce
  \/ CsConsume
  \/ CsSubmit
  \/ CsThrow
  \/ CsReturn
  \/ AppendSucceeds
  \/ AppendFails
  \/ ThenHandler
  \/ Restart

Spec == Init /\ [][Next]_vars

\* The process under the scheduling of the JavaScript run time: a
\* criticalSection is synchronous code that runs to its return or its throw,
\* the store answers every INSERT, and the handler of a settled promise is run
\* by the event loop. Whether an INSERT succeeds, and whether a continuation
\* throws, stays open.
SpecLive ==
  /\ Spec
  /\ WF_vars(CsReturn \/ CsThrow)
  /\ WF_vars(AppendSucceeds \/ AppendFails)
  /\ WF_vars(ThenHandler)

\* ---------------------------------------------------------- the core alone
\* The functional core driven call by call, as the unit test mode and the
\* critical sections drive it (a call that throws is followed by rollback(),
\* as in the catch block of update()), next to the core a process restarted
\* on the committed events would hold.

\* the variables of the coordinator, which this specification leaves alone
coordinator ==
  <<apiKey, queue, busy, pc, job, appends, submitted, calls, restarts, started, emitted,
    preJob, committed, continued, calledBack, rolledBack, failed>>

\* events a critical section consumes that carry metadata; no view and no
\* StateChange entry has a reducer for Member.Removed
CoreEvents ==
  {e \in Events : e.metadata # "undefined"}
  \cup {[type |-> "Member.Removed",
         data |-> [subscriptionId |-> SubscriptionId(1), memberId |-> "m1"],
         metadata |-> "{}"]}

\* paths a caller queries: the prefixes of paths to a leaf of each view, to
\* an entry that may be missing, to a view that does not exist, and to
\* properties no reducer has put there
Paths ==
  LET sub1 == SubscriptionId(1)
      full == {<<Key("Subscription.List"), sub1, Key("plan"), Key("constructor")>>,
               <<Key("Subscription.List"), sub1, Key("members"), Key("length")>>,
               <<Key("Subscription.List"), sub1, Key("owner")>>,
               <<Key("Subscription.List"), SubscriptionId(2)>>,
               <<Key("Subscription.List"), Key("constructor")>>,
               <<Key("Assignment.Tracker"), sub1, Key("pending")>>,
               <<Key("Emails.To.Send"), Key("list"), Key("length")>>,
               <<Key("Emails.To.Send"), Key("nextId"), Key("value")>>,
               <<Key("Payments.Due")>>,
               <<Key("constructor"), Key("length")>>}
  IN  UNION {{SubSeq(p, 1, n) : n \in 0..Len(p)} : p \in full}

\* the record of one call: what was called with what, whether it threw, what
\* it returned, and the core before the call
Call(op, arg, threw, returned) ==
  [op |-> op, arg |-> arg, threw |-> threw, returned |-> returned, before |-> core]

\* the calls made so far that were not queries: of the queries the trace
\* keeps one, as long as it is the last call
Calls ==
  IF trace = <<>> THEN trace
  ELSE IF trace[Len(trace)].op = "query" THEN SubSeq(trace, 1, Len(trace) - 1)
  ELSE trace

\* the last call threw: the caller's catch block is about to run
Thrown == IF trace = <<>> THEN FALSE ELSE trace[Len(trace)].threw

\* a call that leaves the core as c; a restarted process makes the same call
\* and is left with r
Called(call, c, r) ==
  /\ Len(Calls) < MaxCoreCalls
  /\ trace' = Append(Calls, call)
  /\ core' = c
  /\ recovered' = r

CoreProduce ==
  /\ ~Thrown
  /\ \E command \in Commands :
       LET p == produce(core, command)
       IN  Called(Call("produce", command, p.threw, IF p.threw THEN <<>> ELSE p.events),
                  p.core,
                  [i \in DOMAIN recovered |-> produce(recovered[i], command).core])
  /\ UNCHANGED <<log, currentOrderId, coordinator>>

CoreConsume ==
  /\ ~Thrown
  /\ \E event \in CoreEvents :
       LET p == consume(core, event)
       IN  Called(Call("consume", event, p.threw, <<>>), p.core,
                  [i \in DOMAIN recovered |-> consume(recovered[i], event).core])
  /\ UNCHANGED <<log, currentOrderId, coordinator>>

\* commit(), and the transaction it returned appended to the log
CoreCommit ==
  LET tx == core.currentTransaction
      p == physicalAppend(tx, currentOrderId)
  IN  /\ ~Thrown
      /\ Called(Call("commit", <<>>, FALSE, tx), commit(core),
                [i \in DOMAIN recovered |-> commit(recovered[i])])
      /\ log' = log \o p.rows
      /\ currentOrderId' = p.currentOrderId
      /\ UNCHANGED coordinator

CoreRollback ==
  /\ Called(Call("rollback", <<>>, FALSE, <<>>), rollback(core),
            [i \in DOMAIN recovered |-> rollback(recovered[i])])
  /\ UNCHANGED <<log, currentOrderId, coordinator>>

\* query(path): the core stays as it is
CoreQuery ==
  /\ ~Thrown
  /\ \E path \in Paths :
       trace' = Append(Calls, Call("query", path, FALSE, query(core, path)))
  /\ UNCHANGED <<log, currentOrderId, core, recovered, coordinator>>

\* between two jobs of the live process, a second process starts on its log
CoreRecover ==
  /\ recovered = <<>>
  /\ IF Calls = <<>> THEN TRUE ELSE Calls[Len(Calls)].op \in {"commit", "rollback"}
  /\ recovered' = <<Recovery(physicalRead(log))>>
  /\ UNCHANGED <<log, currentOrderId, core, trace, coordinator>>

\* the coordinator as this specification leaves it: nothing submitted
CoordinatorIdle ==
  /\ apiKey = FALSE
  /\ queue = <<>>
  /\ busy = FALSE
  /\ pc = "idle"
  /\ job = 0
  /\ appends = <<>>
  /\ submitted = 0
  /\ calls = 0
  /\ restarts = 0
  /\ started = <<>>
  /\ emitted = <<>>
  /\ preJob = Projections(FunctionalCore)
  /\ committed = <<>>
  /\ continued = {}
  /\ calledBack = {}
  /\ rolledBack = {}
  /\ failed = {}

\* a process that has started on an empty store
CoreInit ==
  /\ log = <<Bootstrap>>
  /\ currentOrderId = MaxOrderId(<<Bootstrap>>)
  /\ core = Recovery(physicalRead(<<Bootstrap>>))
  /\ recovered = <<>>
  /\ trace = <<>>
  /\ CoordinatorIdle

CoreNext ==
  \/ CoreProduce
  \/ CoreConsume
  \/ CoreCommit
  \/ CoreRollback
  \/ CoreQuery
  \/ CoreRecover

SpecCore == CoreInit /\ [][CoreNext]_vars

\* ------------------------------------------------------- the email retries
\* The core of a process in which two members were assigned, so that two
\* notifications are listed, and the sending of each has failed some number
\* of times; from there jobs consume further events.

RECURSIVE Repeat(_, _)
\* n copies of the event e
Repeat(e, n) == IF n = 0 THEN <<>> ELSE <<e>> \o Repeat(e, n - 1)

\* the events consumed so far when the first notification has failed a1
\* times and the second a2 times
RetryHistory(a1, a2) ==
  LET assigned == [type |-> "Member.AssignedToSubscription",
                   data |-> [subscriptionId |-> SubscriptionId(1), memberId |-> "m1"],
                   metadata |-> "{}"]
      emailFailed(n) == [type |-> "Email.Failed", data |-> [notificationId |-> n],
                         metadata |-> "{}"]
  IN  <<assigned, assigned>> \o Repeat(emailFailed(1), a1) \o Repeat(emailFailed(2), a2)

\* Emails.To.Send after those events: the two notifications as the
\* Member.AssignedToSubscription reducer lists them, with a1 and a2 attempts
RetryState(a1, a2) ==
  LET data == [subscriptionId |-> SubscriptionId(1), memberId |-> "m1"]
      one == EmailsToSendReducer("Member.AssignedToSubscription",
                                 ViewInitialState("Emails.To.Send"), data)
      two == EmailsToSendReducer("Member.AssignedToSubscription", one, data)
  IN  [two EXCEPT !.list[1].attempt = a1, !.list[2].attempt = a2]

RetryInit ==
  /\ \E a1 \in 0..(maxRetries - 1), a2 \in {0, maxRetries - 1} :
       LET p == physicalAppend(RetryHistory(a1, a2), MaxOrderId(<<Bootstrap>>))
       IN  /\ log = <<Bootstrap>> \o p.rows
           /\ currentOrderId = p.currentOrderId
           /\ core = [FunctionalCore EXCEPT
                        !.stateView["Emails.To.Send"] = RetryState(a1, a2)]
  /\ recovered = <<>>
  /\ trace = <<>>
  /\ CoordinatorIdle

RetryNext ==
  \/ CoreConsume
  \/ CoreCommit
  \/ CoreRollback

SpecRetry == RetryInit /\ [][RetryNext]_vars

\* ------------------------------------------------- the process of src/app.js
\* The older revision: the same store and writer, a core whose mappers and
\* reducers change the projections in place and keep no snapshots, and a
\* coordinator that clears busy when the call that started update() returns
\* and ends the process when a criticalSection throws. SENDGRID_API_KEY is
\* not set, so the only caller of the coordinator is POST /create-subscription.

\* StateChange[..].map(command.data, state) of src/app.js: the events, and the
\* state object as the call leaves it (nextId++ in the template string)
AppMap(viewId, command, state) ==
  IF viewId = "Subscription.Create"
    THEN [events |-> << [type |-> "Subscription.Created",
                         data |-> [subscriptionId |-> SubscriptionId(state.nextId),
                                   plan |-> command.plan,
                                   createdBy |-> command.createdBy],
                         metadata |-> "{}"] >>,
          state |-> [state EXCEPT !.nextId = @ + 1]]
    ELSE [events |-> << [type |-> "Members.AssignmentStarted",
                         data |-> [subscriptionId |-> command.subscriptionId,
                                   members |-> command.members],
                         metadata |-> "{}"] >>,
          state |-> state]

\* reduce of src/app.js: the reducers of both tables applied in place, every
\* view marked, nothing snapshotted
AppReduce(c, event) ==
  [reduce(c, event) EXCEPT !.currentState = [stateChange |-> <<>>, stateView |-> <<>>]]

RECURSIVE AppReduceAll(_, _)
\* events.forEach(reduce)
AppReduceAll(c, events) ==
  IF events = <<>> THEN c ELSE AppReduceAll(AppReduce(c, Head(events)), Tail(events))

\* produce(command) of src/app.js, for a command type that has a StateChange
\* entry: map on the projection itself, push, fold, trigger
AppProduce(c, command) ==
  LET m == AppMap(command.type, command.data, c.stateChange[command.type])
      c1 == [c EXCEPT !.stateChange[command.type] = m.state,
                      !.currentTransaction = @ \o m.events]
  IN  trigger(AppReduceAll(c1, m.events), 1)

\* commit() of src/app.js: the core after the call
AppCommit(c) == [c EXCEPT !.currentTransaction = <<>>]

\* history.forEach(core.reduce) on a freshly constructed core
AppRecovery(events) == AppReduceAll(FunctionalCore, events)

\* the commands of the critical sections of src/app.js
AppCommands ==
  {[type |-> "Subscription.Create", data |-> [plan |-> p, createdBy |-> u]] :
     p \in Plans, u \in Users}

\* withSingleWriterMutex(criticalSection)(continuation): the job is queued
\* and, unless busy is set, update() is called
AppSubmit ==
  /\ UNCHANGED alone
  /\ pc = "idle"
  /\ submitted < MaxJobs
  /\ submitted' = submitted + 1
  /\ IF busy
       THEN /\ queue' = Append(queue, submitted + 1)
            /\ UNCHANGED <<core, busy, pc, job, emitted, started, preJob>>
       ELSE update(Append(queue, submitted + 1), core, TRUE)
  /\ UNCHANGED <<log, apiKey, currentOrderId, appends, calls, restarts, history>>

\* the criticalSection calls core.produce(command)
AppCsProduce ==
  /\ UNCHANGED alone
  /\ pc = "cs"
  /\ calls < MaxCalls
  /\ calls' = calls + 1
  /\ \E command \in AppCommands : Proceed(AppProduce(core, command).core)

\* the criticalSection throws: the catch block ends the process
AppCsThrow ==
  /\ UNCHANGED alone
  /\ pc = "cs"
  /\ failed' = failed \cup {job}
  /\ core' = core
  /\ Exit
  /\ UNCHANGED <<log, apiKey, currentOrderId, appends, submitted, calls, restarts,
                 committed, continued, calledBack, rolledBack>>

\* The criticalSection returns: core.commit(), physicalAppend(tx) with its
\* handlers attached, update() returns and, when it was called by the
\* submitting call, that call sets busy to false.
AppCsReturn ==
  /\ UNCHANGED alone
  /\ pc = "cs"
  /\ LET tx == core.currentTransaction
         p == physicalAppend(tx, currentOrderId)
     IN  /\ core' = AppCommit(core)
         /\ currentOrderId' = p.currentOrderId
         /\ appends' = Append(appends, [id |-> job, rows |-> p.rows, emitted |-> emitted,
                                        state |-> "pending"])
  /\ busy' = FALSE
  /\ pc' = "idle"
  /\ job' = 0
  /\ UNCHANGED <<log, apiKey, queue, submitted, calls, restarts, started, emitted, preJob,
                 history>>

\* the oldest INSERT the store has not answered yet
Oldest(state) ==
  {i \in DOMAIN appends :
     /\ appends[i].state = state
     /\ \A k \in 1..(i - 1) : appends[k].state # state}

\* the store executes the oldest INSERT it has not answered yet
AppAppendSucceeds ==
  /\ UNCHANGED alone
  /\ pc = "idle"
  /\ \E i \in Oldest("pending") :
       /\ InsertAccepted(log, appends[i].rows)
       /\ log' = log \o appends[i].rows
       /\ appends' = [appends EXCEPT ![i].state = "done"]
       /\ committed' = Append(committed, [id |-> appends[i].id,
                                          events |-> appends[i].emitted])
  /\ UNCHANGED <<apiKey, currentOrderId, core, queue, busy, pc, job, submitted, calls,
                 restarts, started, emitted, preJob, continued, calledBack, rolledBack,
                 failed>>

\* the oldest unanswered INSERT fails: its promise is rejected and the catch
\* handler ends the process
AppAppendFails ==
  /\ UNCHANGED alone
  /\ pc = "idle"
  /\ \E i \in Oldest("pending") :
       /\ failed' = failed \cup {appends[i].id}
       /\ appends' = [appends EXCEPT ![i].state = "failed"]
  /\ core' = core
  /\ Exit
  /\ UNCHANGED <<log, apiKey, currentOrderId, submitted, calls, restarts, committed,
                 continued, calledBack, rolledBack>>

\* The then handler of the oldest resolved physicalAppend: the continuation,
\* then update(). An exception of the continuation reaches the catch handler,
\* which ends the process.
AppThenHandler ==
  /\ UNCHANGED alone
  /\ pc = "idle"
  /\ appends # <<>>
  /\ Head(appends).state = "done"
  /\ appends' = Tail(appends)
  /\ continued' = continued \cup {Head(appends).id}
  /\ \E k \in {"return", "throw"} :
       IF k = "throw"
         THEN /\ core' = core
              /\ Exit
         ELSE update(queue, core, busy)
  /\ UNCHANGED <<log, apiKey, currentOrderId, submitted, calls, restarts, committed,
                 calledBack, rolledBack, failed>>

\* the process is started again on the same store
AppRestart ==
  /\ UNCHANGED alone
  /\ pc = "exited"
  /\ restarts < MaxRestarts
  /\ restarts' = restarts + 1
  /\ currentOrderId' = MaxOrderId(log)
  /\ core' = AppRecovery(physicalRead(log))
  /\ queue' = <<>>
  /\ busy' = FALSE
  /\ pc' = "idle"
  /\ job' = 0
  /\ appends' = <<>>
  /\ emitted' = <<>>
  /\ UNCHANGED <<log, apiKey, submitted, calls, started, preJob, history>>

\* the first start, on an empty store
AppInit ==
  /\ log = <<Bootstrap>>
  /\ currentOrderId = MaxOrderId(<<Bootstrap>>)
  /\ core = AppRecovery(physicalRead(<<Bootstrap>>))
  /\ recovered = <<>>
  /\ trace = <<>>
  /\ CoordinatorIdle

AppNext ==
  \/ AppSubmit
  \/ AppCsProduce
  \/ AppCsThrow
  \/ AppCsReturn
  \/ AppAppendSucceeds
  \/ AppAppendFails
  \/ AppThenHandler
  \/ AppRestart

SpecApp == AppInit /\ [][AppNext]_vars

\* ------------------------------------------------------------------ claims
\* the type and data of each event or row of a list
RECURSIVE Facts(_)
Facts(s) ==
  IF s = <<>> THEN <<>>
  ELSE <<[type |-> Head(s).type, data |-> Head(s).data]>> \o Facts(Tail(s))

RECURSIVE CommittedFacts(_)
\* the events of the committed jobs, job after job
CommittedFacts(c) ==
  IF c = <<>> THEN <<>> ELSE Facts(Head(c).events) \o CommittedFacts(Tail(c))

\* the projections recovery would rebuild from the log as it is
FoldOfLog == Projections(Recovery(physicalRead(log)))

\* C1: once the catch block has handled a throwing criticalSection, every
\* ChangeState and ViewState projection equals its value when that job began,
\* and the transaction buffer is empty.
C1_RollbackRestoresPreJob ==
  [][rolledBack' # rolledBack =>
       /\ Projections(core') = preJob
       /\ core'.currentTransaction = <<>>]_vars

\* C2: when a job's criticalSection throws, the step that handles it appends
\* nothing, leaves nothing in the transaction buffer, keeps the process
\* running and starts the next waiting job (or goes idle when none waits);
\* and a rolled-back job never has its continuation invoked, a physicalAppend
\* outstanding or an INSERT executed.
C2_ThrowRollsBackAndGoesOn ==
  /\ [][rolledBack' # rolledBack =>
          /\ log' = log
          /\ appends' = appends
          /\ core'.currentTransaction = <<>>
          /\ pc' # "exited"
          /\ IF queue = <<>> THEN pc' = "idle" /\ job' = 0
             ELSE pc' = "cs" /\ job' = Head(queue)]_vars
  /\ [](\A j \in rolledBack :
          /\ j \notin continued
          /\ j \notin calledBack
          /\ \A i \in DOMAIN appends : appends[i].id # j
          /\ \A i \in DOMAIN committed : committed[i].id # j)

\* C2 witness: a job that was started right after a rolled-back job, in the
\* same process, has committed and had its continuation invoked.
C2_Witness ==
  \E i \in DOMAIN started :
    /\ i > 1
    /\ started[i - 1].id \in rolledBack
    /\ started[i - 1].epoch = started[i].epoch
    /\ started[i].id \in continued

\* C3: at most one job is in flight: while a criticalSection runs no
\* physicalAppend is outstanding, and never more than one is outstanding.
C3_OneJobInFlight ==
  /\ Len(appends) <= 1
  /\ pc = "cs" => appends = <<>>

\* C3 witness: a job waits in the queue while the physicalAppend of another
\* is outstanding.
C3_Witness ==
  /\ appends # <<>>
  /\ Head(appends).state = "pending"
  /\ queue # <<>>

\* C4: criticalSections start in submission order: the started jobs are in
\* increasing order of submission, the waiting jobs too, and every waiting
\* job was submitted after every job that has started.
C4_Fifo ==
  /\ \A i, k \in DOMAIN started : i < k => started[i].id < started[k].id
  /\ \A i, k \in DOMAIN queue : i < k => queue[i] < queue[k]
  /\ \A i \in DOMAIN started : \A k \in DOMAIN queue : started[i].id < queue[k]

\* C4 witness: a job was taken from the queue while another one waited
\* behind it.
C4_Witness ==
  \E i \in DOMAIN started : started[i].behind >= 1

\* C5: the log after the bootstrap record is the concatenation, in submission
\* order, of the events the committed jobs emitted, each job's events in
\* emission order; rolled-back jobs contribute nothing.
C5_LogIsCommittedTransactions ==
  /\ Facts(Tail(log)) = CommittedFacts(committed)
  /\ \A i, k \in DOMAIN committed : i < k => committed[i].id < committed[k].id
  /\ \A i \in DOMAIN committed : committed[i].id \notin rolledBack

\* C5 witness: two jobs have committed events, with a rolled-back job
\* submitted between them.
C5_Witness ==
  /\ Len(committed) >= 2
  /\ \E r \in rolledBack : committed[1].id < r /\ r < committed[2].id

\* C6: the order ids physicalAppend assigns to one transaction are
\* consecutive, in the order supplied, and greater than every order id in
\* the log, also after restarts; the order ids in the log strictly increase.
C6_OrderIds ==
  /\ \A i, k \in DOMAIN log : i < k => log[i].orderId < log[k].orderId
  /\ \A a \in DOMAIN appends :
       appends[a].state = "pending" =>
         LET rows == appends[a].rows
         IN  /\ \A i \in DOMAIN rows : \A k \in DOMAIN log :
                  log[k].orderId < rows[i].orderId
             /\ \A i \in DOMAIN rows :
                  i > 1 => rows[i].orderId = rows[i - 1].orderId + 1
             /\ Facts(rows) = Facts(appends[a].emitted)

\* C6 witness: after a restart on a log that holds events, a transaction has
\* been given its order ids and awaits its INSERT.
C6_Witness ==
  /\ restarts >= 1
  /\ Len(log) >= 2
  /\ appends # <<>>
  /\ Head(appends).state = "pending"
  /\ Head(appends).rows # <<>>

\* C7: when a committed job's continuation is about to be invoked, every
\* projection equals the fold of the events in the log.
C7_ProjectionsAreFoldOfLog ==
  \A i \in DOMAIN appends : appends[i].state = "done" => Projections(core) = FoldOfLog

\* C8: when a criticalSection returns with the transaction buffer empty, the
\* coordinator issues no physicalAppend, invokes the continuation and does
\* not end the process.
C8_EmptyTxSkipsAppend ==
  [][(pc = "cs" /\ pc' # "cs" /\ rolledBack' = rolledBack
        /\ core.currentTransaction = <<>>) =>
       /\ appends' = appends
       /\ job \in continued'
       /\ pc' # "exited"]_vars

\* C9: a job whose physicalAppend failed never has its continuation invoked
\* nor externalStateOutput run for it, no job is started after it in that
\* process, and the process has ended.
C9_AppendFailureIsFatal ==
  \A i \in DOMAIN started :
    started[i].id \in failed =>
      /\ started[i].id \notin continued
      /\ started[i].id \notin calledBack
      /\ \A k \in DOMAIN started : k > i => started[k].epoch > started[i].epoch
      /\ started[i].epoch = restarts => pc = "exited"

\* C9 witness: the process has ended on a failed physicalAppend of a
\* transaction that held events, with a later job still waiting.
C9_Witness ==
  /\ pc = "exited"
  /\ started # <<>>
  /\ started[Len(started)].id \in failed
  /\ queue # <<>>
  /\ Projections(core) # preJob

\* C10: after a fatal append failure and a restart on the same log, the
\* recovered projections equal the projections held when the failed job's
\* criticalSection began.
C10_RecoveryAfterAppendFailure ==
  [][(pc = "exited" /\ restarts' = restarts + 1 /\ started # <<>>
        /\ started[Len(started)].id \in failed) =>
       Projections(core') = preJob]_vars

\* C11: a process restarted on the log of a live process holds, after
\* recovery, the projections the live process held after its last commit, and
\* whatever calls the jobs that follow make (committing or rolled back), the
\* restarted process holds the same projections and the same emitted events
\* in its transaction buffer as the live one.
C11_RecoveredEqualsLive ==
  \A i \in DOMAIN recovered :
    /\ Projections(recovered[i]) = Projections(core)
    /\ recovered[i].currentTransaction = core.currentTransaction

\* the projections after one more event, by the reducers of the tables alone
Fold1(p, event) ==
  [stateChange |->
     [v \in DOMAIN p.stateChange |->
        IF HasChangeReducer(v, event.type)
          THEN ChangeReducer(v, event.type, p.stateChange[v], event)
          ELSE p.stateChange[v]],
   stateView |->
     [v \in DOMAIN p.stateView |->
        IF HasViewReducer(v, event.type)
          THEN ViewReducer(v, event.type, p.stateView[v], event.data)
          ELSE p.stateView[v]]]

RECURSIVE PureFold(_, _)
\* the left fold of Fold1 over a list of events
PureFold(p, events) ==
  IF events = <<>> THEN p ELSE PureFold(Fold1(p, Head(events)), Tail(events))

\* the process has started and no job has begun in it yet
NoJobYet ==
  /\ pc = "idle"
  /\ ~busy
  /\ \A i \in DOMAIN started : started[i].epoch < restarts

\* C12: a start-up replays the log without appending to it and without an
\* append outstanding; and as long as no job has begun in the process, the
\* transaction buffer is empty, every dirty marker reduce() left is still
\* there (no trigger call took them), and the projections equal the pure
\* fold of the log over the initial states.
C12_RecoveryIsPureFold ==
  /\ [][restarts' # restarts => log' = log /\ appends' = <<>>]_vars
  /\ [](NoJobYet =>
          /\ core.currentTransaction = <<>>
          /\ core.stateMachine = {StateViewIds[k] : k \in DOMAIN StateViewIds}
          /\ appends = <<>>
          /\ Projections(core) = PureFold(Projections(FunctionalCore), physicalRead(log)))

\* C12 witness: a process has restarted on a log that holds a subscription
\* and no job has begun in it.
C12_Witness ==
  /\ restarts >= 1
  /\ NoJobYet
  /\ Len(log) >= 2
  /\ Projections(core) # Projections(FunctionalCore)

\* C14: externalStateOutput runs for a job only in the then handler of that
\* job's executed INSERT, and not when the continuation invoked there threw
\* (without SENDGRID_API_KEY only a continuation can end the process in the
\* then handler); so every job it ran for has committed and had its
\* continuation invoked, and was neither rolled back nor failed in its append.
C14_CallbacksAfterCommit ==
  /\ [][calledBack' # calledBack =>
          /\ appends # <<>>
          /\ Head(appends).state = "done"
          /\ calledBack' = calledBack \cup {Head(appends).id}]_vars
  /\ [][(continued' # continued /\ pc' = "exited" /\ ~apiKey) =>
          calledBack' = calledBack]_vars
  /\ [](\A j \in calledBack :
          /\ j \in continued
          /\ \E i \in DOMAIN committed : committed[i].id = j
          /\ j \notin rolledBack
          /\ j \notin failed)

\* C14 witness: externalStateOutput has run for one job while another job was
\* rolled back and a third failed in its append.
C14_Witness ==
  /\ calledBack # {}
  /\ rolledBack # {}
  /\ failed # {}

\* C15: the then handler of an executed INSERT, whatever the continuation and
\* externalStateOutput do in it, leaves the log as it is, keeps the process
\* running and starts the next waiting job.
C15_LateFailureIsNotFatal ==
  [][continued' # continued =>
       /\ log' = log
       /\ pc' # "exited"
       /\ queue # <<>> => (pc' = "cs" /\ job' = Head(queue))]_vars

\* the core after the i-th recorded call
After(i) == IF i < Len(trace) THEN trace[i + 1].before ELSE core

\* the i-th recorded call is produce of a Subscription.Create command
IsCreate(i) ==
  IF trace[i].op = "produce" THEN trace[i].arg.type = "Subscription.Create" ELSE FALSE

\* C16: produce of Subscription.Create does not throw, returns and adds to
\* the transaction buffer exactly one event, Subscription.Created with the
\* command's plan and createdBy and the subscriptionId made of the nextId
\* before the call; right after it query(['Subscription.List', that id]) is
\* {plan, createdBy, members: []}; and when every call so far on the fresh
\* core was such a produce, the k-th one yields sub-k.
C16_CreateEmitsOneEvent ==
  \A i \in DOMAIN trace :
    IsCreate(i) =>
      LET call == trace[i]
          id == SubscriptionId(call.before.stateChange["Subscription.Create"].nextId)
          listed == query(After(i), <<Key("Subscription.List"), id>>)
      IN  /\ ~call.threw
          /\ Len(call.returned) = 1
          /\ call.returned[1].type = "Subscription.Created"
          /\ call.returned[1].data =
               [subscriptionId |-> id, plan |-> call.arg.data.plan,
                createdBy |-> call.arg.data.createdBy]
          /\ Emitted(call.before, After(i)) = call.returned
          /\ listed.kind = "subscription"
          /\ listed.value = [plan |-> call.arg.data.plan,
                             createdBy |-> call.arg.data.createdBy, members |-> <<>>]
          /\ (\A k \in 1..i : IsCreate(k)) => id = SubscriptionId(i)

\* C16 witness: the second of two consecutive creates on the fresh core has
\* been made.
C16_Witness ==
  /\ Len(trace) >= 2
  /\ IsCreate(1)
  /\ IsCreate(2)
  /\ Has(core.stateView["Subscription.List"], SubscriptionId(2))

\* the i-th recorded call is produce of Subscription.Assign.Members with at
\* least one member
IsAssign(i) ==
  IF trace[i].op = "produce"
    THEN IF trace[i].arg.type = "Subscription.Assign.Members"
           THEN trace[i].arg.data.members # <<>> ELSE FALSE
    ELSE FALSE

\* C17: produce of Subscription.Assign.Members for subscription s with a
\* non-empty member list M returns (the triggers it sets off come to an end)
\* instead of throwing, the events it added to the transaction buffer include
\* Members.AssignmentStarted with members M, and after it Assignment.Tracker
\* has for s pending = M, completed = [] and failed = [].
C17_AssignCompletes ==
  \A i \in DOMAIN trace :
    IsAssign(i) =>
      LET call == trace[i]
          emits == Emitted(call.before, After(i))
          tracker == query(After(i), <<Key("Assignment.Tracker"), call.arg.data.subscriptionId>>)
      IN  /\ ~call.threw
          /\ \E k \in DOMAIN emits :
               /\ emits[k].type = "Members.AssignmentStarted"
               /\ emits[k].data.members = call.arg.data.members
          /\ tracker.kind = "tracker"
          /\ tracker.value = [pending |-> NewSet(call.arg.data.members),
                              completed |-> <<>>, failed |-> <<>>]

\* the list of Emails.To.Send in the core c
EmailList(c) == c.stateView["Emails.To.Send"].list

\* the i-th recorded call is consume of an Email.Failed event
IsEmailFailed(i) ==
  IF trace[i].op = "consume" THEN trace[i].arg.type = "Email.Failed" ELSE FALSE

\* the list the claim expects after Email.Failed for notification n
AfterEmailFailed(list, n) ==
  LET kept == SelectSeq(list, LAMBDA x : ~(x.notificationId = n /\ x.attempt = 9))
  IN  [k \in DOMAIN kept |->
         IF kept[k].notificationId = n
           THEN [kept[k] EXCEPT !.attempt = @ + 1] ELSE kept[k]]

\* C18: every listed notification has an attempt count in 0..9, and consuming
\* Email.Failed for notification n removes n from the list when its attempt
\* count was 9, adds one to it when it was less, and leaves every other
\* notification as it was.
C18_RetryCap ==
  /\ \A k \in DOMAIN EmailList(core) : EmailList(core)[k].attempt \in 0..9
  /\ \A i \in DOMAIN trace :
       IsEmailFailed(i) =>
         EmailList(After(i)) =
           AfterEmailFailed(EmailList(trace[i].before), trace[i].arg.data.notificationId)

\* C18 witness: Email.Failed was consumed for a notification whose attempt
\* count was 9, and the other notification is the only one left.
C18_Witness ==
  \E i \in DOMAIN trace :
    /\ IsEmailFailed(i)
    /\ \E k \in DOMAIN EmailList(trace[i].before) :
         /\ EmailList(trace[i].before)[k].notificationId = trace[i].arg.data.notificationId
         /\ EmailList(trace[i].before)[k].attempt = 9
    /\ Len(EmailList(trace[i].before)) = 2
    /\ Len(EmailList(After(i))) = 1

\* the i-th recorded call is commit() and so is the call before it
IsSecondCommit(i) ==
  IF i > 1 THEN trace[i].op = "commit" /\ trace[i - 1].op = "commit" ELSE FALSE

\* C19: a commit() that follows a commit() with no produce, consume or
\* rollback between them returns an empty list of events.
C19_SecondCommitIsEmpty ==
  \A i \in DOMAIN trace : IsSecondCommit(i) => trace[i].returned = <<>>

\* C19 witness: commit() was called twice in a row and the first call
\* returned events.
C19_Witness ==
  \E i \in DOMAIN trace : IsSecondCommit(i) /\ trace[i - 1].returned # <<>>

RECURSIVE Subtree(_, _)
\* the part of the projection tree at path below x (undefined: there is
\* none), following own properties only
Subtree(x, path) ==
  IF path = <<>> THEN x
  ELSE IF OwnProperty(x, Head(path)).kind = "undefined" THEN undefined
  ELSE Subtree(OwnProperty(x, Head(path)), Tail(path))

\* the same kind of value and the same value
Same(a, b) == IF a.kind = b.kind THEN a.value = b.value ELSE FALSE

\* C20: query(path) returns null exactly when the ViewState projection tree
\* has nothing at path (some prefix of path leads nowhere in it), and the
\* subtree at path otherwise.
C20_QueryNullIffAbsent ==
  \A i \in DOMAIN trace :
    trace[i].op = "query" =>
      LET tree == Subtree(Value("views", trace[i].before.stateView), trace[i].arg)
      IN  IF tree.kind = "undefined" THEN trace[i].returned.kind = "null"
          ELSE Same(trace[i].returned, tree)

\* C21: a view is marked dirty only if an event folded since the last trigger
\* pass has a reducer in that view. Dirty markers outlive a call only after
\* recovery, where the events folded are those of the log.
C21_DirtyOnlyIfReducerMatched ==
  \A v \in core.stateMachine :
    \E k \in DOMAIN log : HasViewReducer(v, log[k].type)

\* no ViewState and no ChangeState entry has a reducer for the event type
NoReducer(type) ==
  /\ \A k \in DOMAIN StateViewIds : ~HasViewReducer(StateViewIds[k], type)
  /\ \A k \in DOMAIN StateChangeIds : ~HasChangeReducer(StateChangeIds[k], type)

\* the i-th recorded call is consume of an event no reducer takes
IsUnreducedConsume(i) ==
  IF trace[i].op = "consume" THEN NoReducer(trace[i].arg.type) ELSE FALSE

\* C22: consume of an event whose type has no reducer returns, leaves every
\* projection as it was and adds that event and no other to the transaction
\* buffer; a commit() right after it returns the buffer with the event last,
\* and the event is then the last row of the log.
C22_UnreducedEventIsKept ==
  \A i \in DOMAIN trace :
    IsUnreducedConsume(i) =>
      /\ ~trace[i].threw
      /\ Projections(After(i)) = Projections(trace[i].before)
      /\ After(i).currentTransaction =
           Append(trace[i].before.currentTransaction, trace[i].arg)
      /\ (IF i < Len(trace) THEN trace[i + 1].op = "commit" ELSE FALSE) =>
           trace[i + 1].returned = After(i).currentTransaction
      /\ (IF i + 1 = Len(trace) THEN trace[i + 1].op = "commit" ELSE FALSE) =>
           Facts(<<log[Len(log)]>>) = Facts(<<trace[i].arg>>)

\* C22 witness: with a subscription listed, an event no reducer takes was
\* consumed and the commit() after it has appended it.
C22_Witness ==
  /\ Len(trace) >= 2
  /\ IsUnreducedConsume(Len(trace) - 1)
  /\ trace[Len(trace)].op = "commit"
  /\ Projections(core) # Projections(FunctionalCore)
  /\ log[Len(log)].type = "Member.Removed"

\* C23: in the step in which a job's criticalSection begins, the transaction
\* buffer is empty and so is the map of pre-change snapshots.
C23_JobStartsClean ==
  [][started' # started =>
       /\ core'.currentTransaction = <<>>
       /\ core'.currentState = [stateChange |-> <<>>, stateView |-> <<>>]]_vars

\* C24: once a process has started (its recovery is over) and as long as no
\* job has begun in it, no view is marked dirty.
C24_NoDirtyMarkerAfterRecovery ==
  NoJobYet => core.stateMachine = {}

\* C25: the durable log never holds two Subscription.Created events with the
\* same subscriptionId.
C25_SubscriptionIdsUnique ==
  \A i, j \in DOMAIN log :
    /\ i # j
    /\ log[i].type = "Subscription.Created"
    /\ log[j].type = "Subscription.Created"
    => log[i].data.subscriptionId # log[j].data.subscriptionId

\* job j's criticalSection has begun at some time
HasStarted(j) == \E i \in DOMAIN started : started[i].id = j

\* C26: if the process never ends (no append fails, no continuation and no
\* post-commit callback throws), every submitted job eventually has its
\* criticalSection begun, however it was submitted: while the coordinator was
\* idle, while an append was pending, from a criticalSection or from a
\* continuation.
C26_EveryJobRuns ==
  [](pc # "exited") =>
    \A j \in 1..MaxJobs : (submitted >= j) ~> HasStarted(j)

\* C26 witness: in a process that never ended, every job has begun: the first
\* submitted to an idle coordinator, a later one begun with another job
\* waiting behind it, and the last one begun by the then handler of a job
\* whose append had succeeded.
C26_Witness ==
  /\ restarts = 0
  /\ pc # "exited"
  /\ \A j \in 1..MaxJobs : HasStarted(j)
  /\ Len(started) = MaxJobs
  /\ started[1].behind = 0
  /\ \E i \in DOMAIN started : started[i].behind >= 1
  /\ started[MaxJobs - 1].id \in continued
  /\ appends = <<>>

\* C27: in the process of src/app.js, in the step in which a job's
\* criticalSection begins no physicalAppend of an earlier job is outstanding:
\* every earlier append has resolved and its continuation has been invoked.
C27_WaitsForEarlierAppend ==
  [][started' # started => appends' = <<>>]_vars

\* C30: the mapper call inside produce of src/app.js leaves the StateChange
\* projection it is handed as it was, for every command a criticalSection can
\* produce and in every state of the process (the mapper of part_000 returns
\* its events and has no other effect: Map).
C30_MapperLeavesProjections ==
  \A command \in Commands :
    HasMap(command.type) =>
      AppMap(command.type, command.data, core.stateChange[command.type]).state
        = core.stateChange[command.type]

\* what GET /subscriptions/<id> reads from the core c
Read(c, n) == query(c, <<Key("Subscription.List"), SubscriptionId(n)>>)

C29_RollbackIsIdempotent ==
  \A i \in DOMAIN trace :
    (i > 1 /\ trace[i].op = "rollback") =>
      /\ ~trace[i].threw
      /\ trace[i - 1].op = "rollback" =>
           /\ Projections(After(i)) = Projections(trace[i].before)
           /\ After(i).currentTransaction = trace[i].before.currentTransaction
           /\ After(i).currentState = trace[i].before.currentState
      /\ trace[i - 1].op = "commit" =>
           Projections(After(i)) = Projections(trace[i].before)

\* C29 witness: a call changed the projections and filled the buffer, a
\* rollback() undid it, and a second rollback() followed.
C29_Witness ==
  /\ Len(trace) = 3
  /\ trace[2].op = "rollback"
  /\ trace[3].op = "rollback"
  /\ Projections(trace[2].before) # Projections(trace[3].before)
  /\ trace[2].before.currentTransaction # <<>>

====
